---------------------------- MODULE Spec2Model ----------------------------
(* PyPlag: PyPlag.run and PyPlag._post_process_jplag_results (src/src/main.py) as a    *)
(* state machine.  Strings that the code takes apart (file names, paths) are sequences *)
(* of tokens; a submission id is a one-token string.  A similarity in [0,1] is an      *)
(* integer number of 1/Scale units.                                                    *)
EXTENDS Integers, Sequences, FiniteSets, TLC

VARIABLES pc, lang, settings, call_args, submissions, returncode, fs,
          scratch, todo, overview, result

vars == <<pc, lang, settings, call_args, submissions, returncode, fs,
          scratch, todo, overview, result>>

(* ------------------------------ bounds ------------------------------ *)
\* the largest number of comparison entries of the detector's archive
MaxEntries == 2

(* ------------------------- values and helpers ------------------------ *)
None == [none |-> TRUE]

Min(x, y) == IF x <= y THEN x ELSE y

RECURSIVE SumTo(_, _)
SumTo(f, n) == IF n < 0 THEN 0 ELSE f[n] + SumTo(f, n - 1)

\* dict without key k
DictDel(d, k) == [x \in DOMAIN d \ {k} |-> d[x]]

\* str.split("-") on a token string: the maximal runs between "-" tokens
RECURSIVE Split(_)
Split(s) ==
    IF \A i \in 1..Len(s) : s[i] # "-" THEN <<s>>
    ELSE LET i == CHOOSE j \in 1..Len(s) :
                      s[j] = "-" /\ \A k \in 1..(j - 1) : s[k] # "-"
         IN  <<SubSeq(s, 1, i - 1)>> \o Split(SubSeq(s, i + 1, Len(s)))

(* ----------------------------- submission ---------------------------- *)
\* the dataclass's generated constructor: positional arguments are bound to the
\* fields in declaration order id, lang, author, files
PyPlagSubmission(p1, p2, p3, p4) == [id |-> p1, lang |-> p2, author |-> p3, files |-> p4]

\* the dataclass's generated constructor
PyPlagReport(status, report_path, report_min_path) ==
    [status |-> status, report_path |-> report_path, report_min_path |-> report_min_path]

\* the submissions of a run: "one" as main builds it, and two more
Ids == {<<"one">>, <<"two">>, <<"three">>}
MainArgs == [author |-> "t1", language |-> "python3"]
ArgChoices == {MainArgs, [author |-> "t2", language |-> "python3"],
               [author |-> "t1", language |-> "java"]}
CallArgs == {a \in [Ids -> ArgChoices] : a[<<"one">>] = MainArgs /\ a[<<"three">>] # MainArgs}

\* the caller's submission list, each built with positional arguments in the order
\* identifier, author, language, files
BuildSubmissions(args) ==
    [i \in Ids |-> PyPlagSubmission(i, args[i].author, args[i].language, "main.py")]

supported_languages ==
    {"c", "cpp", "csharp", "emf", "emf-model", "go", "java", "javascript", "kotlin",
     "llvmir", "multi", "python3", "rlang", "rust", "scala", "scheme", "scxml", "swift",
     "text", "typescript"}
RunLangs == {"python3", "cobol"}

(* ------------------------------- paths ------------------------------- *)
\* report_dir / f"{lang}.jplag"
ReportPath(l) == [stem |-> <<l>>, suffix |-> ".jplag"]

\* faulty variant: the minimized archive is written over the report itself
ReportMinPathSame(report) == report

\* report.with_stem(f"{report.stem}.min")
ReportMinPath(report) == [report EXCEPT !.stem = report.stem \o <<".min">>]

(* ------------------------------ archive ------------------------------ *)
SIMILARITY_DISTRIBUTION_SIZE == 100
Scale == 10 * SIMILARITY_DISTRIBUTION_SIZE
Metrics == {"MAX", "AVG"}
AllMetrics == {"MAX", "AVG", "MIN", "INTERSECTION"}

Name(stem) == [stem |-> stem, suffix |-> ".json"]
OverviewName == Name(<<"overview">>)
OptionsName == Name(<<"options">>)

ignore_files == {[stem |-> <<"basecode">>, suffix |-> ""],
                 [stem |-> <<"files">>, suffix |-> ""],
                 OptionsName,
                 OverviewName,
                 [stem |-> <<"README">>, suffix |-> ".txt"],
                 Name(<<"submissionFileIndex">>)}

\* faulty variant: round() in place of int()
BucketRounded(value) ==
    Min((value * SIMILARITY_DISTRIBUTION_SIZE + Scale \div 2) \div Scale,
        SIMILARITY_DISTRIBUTION_SIZE - 1)

\* min(int(value * SIMILARITY_DISTRIBUTION_SIZE), SIMILARITY_DISTRIBUTION_SIZE - 1)
Bucket(value) ==
    Min((value * SIMILARITY_DISTRIBUTION_SIZE) \div Scale, SIMILARITY_DISTRIBUTION_SIZE - 1)

\* the entries a detector's archive may hold beside its fixed documents
EntryOrder == <<Name(<<"one", "-", "two">>), Name(<<"two", "-", "three">>),
                Name(<<"one", "-", "zed">>), Name(<<"cluster">>)>>
EntryUniverse == {EntryOrder[i] : i \in DOMAIN EntryOrder}

SimChoices == {[MAX |-> Scale, AVG |-> 755], [MAX |-> 755, AVG |-> 0]}

ComparisonDoc(name, sim) ==
    LET ids == Split(name.stem)
    IN  [id1 |-> ids[1], id2 |-> IF Len(ids) > 1 THEN ids[2] ELSE <<>>,
         similarities |-> sim, matches |-> <<"match">>,
         first_similarity |-> sim.MAX, second_similarity |-> sim.AVG]


\* the document the code writes over a colliding entry before deleting it
ZeroDoc(id1, id2) ==
    [id1 |-> id1, id2 |-> id2, similarities |-> [MAX |-> 0, AVG |-> 0],
     matches |-> <<>>, first_similarity |-> 0, second_similarity |-> 0]

\* the entries whose name encodes a pair
Comparisons(E) == {e \in E : Len(Split(e.stem)) = 2}

\* the histogram the detector builds: every comparison counted once per metric
Hist(E, sim, metric) ==
    [b \in 0..(SIMILARITY_DISTRIBUTION_SIZE - 1) |->
        Cardinality({e \in Comparisons(E) : Bucket(sim[e][metric]) = b})]

\* the symmetric index of the detector: for each comparison both directions
FullIndex(E) ==
    LET mentioned == Ids \cup UNION {{Split(e.stem)[1], Split(e.stem)[2]} : e \in Comparisons(E)}
        file(s, o) == CHOOSE e \in Comparisons(E) : Split(e.stem) \in {<<s, o>>, <<o, s>>}
        others(s) == {o \in mentioned :
                        \E e \in Comparisons(E) : Split(e.stem) \in {<<s, o>>, <<o, s>>}}
    IN  [s \in mentioned |-> [o \in others(s) |-> file(s, o)]]

\* a symmetric index, or one that already lacks one direction of one pair
IndexChoices(E) ==
    LET full == FullIndex(E)
    IN  {full} \cup {[full EXCEPT ![s] = DictDel(full[s], o)] :
                        <<s, o>> \in {<<x, y>> \in (DOMAIN full) \X (DOMAIN full) :
                                         y \in DOMAIN full[x]}}

Descriptor(a, b) == [first_submission |-> a, second_submission |-> b]

\* the top lists of the detector: some of the comparisons, each once, the pairs
\* named as the entry names have them or the other way round
TopChoices(E) ==
    LET listed(L) == LET in(e) == e \in L IN SelectSeq(EntryOrder, in)
        listings == {listed(L) : L \in SUBSET Comparisons(E)}
    IN  {[i \in 1..Len(s) |-> Descriptor(Split(s[i].stem)[1], Split(s[i].stem)[2])] :
            s \in listings}
        \cup
        {[i \in 1..Len(s) |-> Descriptor(Split(s[i].stem)[2], Split(s[i].stem)[1])] :
            s \in listings}

OverviewDoc(E, sim, index, top) ==
    [distributions |-> [m \in AllMetrics |->
                          Hist(E, sim, IF m \in {"MAX", "INTERSECTION"} THEN "MAX" ELSE "AVG")],
     submission_ids_to_comparison_file_name |-> index,
     top_comparisons |-> top]

\* the archive the detector writes: a file's content is the sequence of JSON
\* documents in it
JPlagArchive(withOverview, E, sim, index, top) ==
    [n \in (IF withOverview THEN {OverviewName} ELSE {}) \cup E |->
        IF n = OverviewName THEN <<OverviewDoc(E, sim, index, top)>>
        ELSE IF n \in Comparisons(E) THEN <<ComparisonDoc(n, sim[n])>>
        ELSE <<[text |-> n.stem]>>]

(* ---------------------------- file system ---------------------------- *)
NoFiles == <<>>

FileWrite(files, p, content) ==
    [q \in DOMAIN files \cup {p} |-> IF q = p THEN content ELSE files[q]]

\* json.load: the file holds exactly one document
JsonLoad(content) == content[1]

\* file.write after json.load on a file opened "r+": the text is appended
WriteAfterLoad(dir, f, doc) == [dir EXCEPT ![f] = @ \o <<doc>>]

\* faulty variant: the entry is overwritten and not deleted
UnlinkSkipped(dir, f) == dir

\* file_path.unlink()
Unlink(dir, f) == DictDel(dir, f)

(* ----------------------- the post-processing loop -------------------- *)
submissions_dict == [i \in {s.id : s \in {submissions[k] : k \in DOMAIN submissions}} |->
                        CHOOSE s \in {submissions[k] : k \in DOMAIN submissions} : s.id = i]

\* faulty variant: every comparison is taken for a collision
IsCollisionAlways(submission1, submission2) == TRUE

\* line 148
IsCollision(submission1, submission2) == submission1.author = submission2.author

\* whether submissions_dict[id] finds a submission
Known(dict, id) == id \in DOMAIN dict

\* faulty variant: a comparison naming a submission that is not in the index is passed over
EntryKindLenient(f, dict) ==
    IF f \in ignore_files THEN "ignored"
    ELSE LET ids == Split(f.stem)
         IN  IF Len(ids) # 2 THEN "badname"
             ELSE IF ~Known(dict, ids[1]) \/ ~Known(dict, ids[2]) THEN "keep"
             ELSE IF IsCollision(dict[ids[1]], dict[ids[2]]) THEN "collision"
             ELSE "keep"

\* what the loop body does with entry f
EntryKind(f, dict) ==
    IF f \in ignore_files THEN "ignored"
    ELSE LET ids == Split(f.stem)
         IN  IF Len(ids) # 2 THEN "badname"
             ELSE IF ~Known(dict, ids[1]) \/ ~Known(dict, ids[2]) THEN "unknown"
             ELSE IF IsCollision(dict[ids[1]], dict[ids[2]]) THEN "collision"
             ELSE "keep"

\* faulty variant: `break` in place of `continue`
SkipIgnoredBreak(rest, f) == {}

\* `continue` on an ignored file: the loop goes on with the remaining files
SkipIgnored(rest, f) == rest \ {f}

HasPair(index, a, b) == a \in DOMAIN index /\ b \in DOMAIN index[a]

\* lines 169-174: two deletions in one try block; a KeyError ends the block
PruneIndex(index, id1, id2) ==
    IF ~HasPair(index, id1, id2) THEN index
    ELSE LET index1 == [index EXCEPT ![id1] = DictDel(@, id2)]
         IN  IF ~HasPair(index1, id2, id1) THEN index1
             ELSE [index1 EXCEPT ![id2] = DictDel(@, id1)]

\* faulty variant: only the MAX histogram is corrected
CorrectDistributionsMaxOnly(distributions, file_data) ==
    [m \in DOMAIN distributions |->
        IF m = "MAX"
        THEN [distributions[m] EXCEPT ![Bucket(file_data.similarities[m])] = @ - 1]
        ELSE distributions[m]]

\* lines 180-187
CorrectDistributions(distributions, file_data) ==
    [m \in DOMAIN distributions |->
        IF m \in Metrics
        THEN [distributions[m] EXCEPT ![Bucket(file_data.similarities[m])] = @ - 1]
        ELSE distributions[m]]

\* faulty variant: only the order of the entry name is matched
filter_comparison_one_order(comp, submission_id1, submission_id2) ==
    ~(comp.first_submission = submission_id1 /\ comp.second_submission = submission_id2)

\* lines 189-195
filter_comparison(comp, submission_id1, submission_id2) ==
    ~(\/ (comp.first_submission = submission_id1 /\ comp.second_submission = submission_id2)
      \/ (comp.first_submission = submission_id2 /\ comp.second_submission = submission_id1))

\* line 197
FilterTop(top, id1, id2) ==
    LET keep(comp) == filter_comparison(comp, id1, id2) IN SelectSeq(top, keep)

\* lines 149-197 on the in-memory overview
Sanitize(ov, file_data, id1, id2) ==
    [distributions |-> CorrectDistributions(ov.distributions, file_data),
     submission_ids_to_comparison_file_name |->
         PruneIndex(ov.submission_ids_to_comparison_file_name, id1, id2),
     top_comparisons |-> FilterTop(ov.top_comparisons, id1, id2)]

\* lines 149-167 on the scratch directory
OverwriteAndDelete(dir, f, id1, id2) ==
    Unlink(WriteAfterLoad(dir, f, ZeroDoc(id1, id2)), f)

(* ------------------------------- Init -------------------------------- *)
Init ==
    /\ pc = "start"
    /\ lang \in RunLangs
    /\ settings \in {[filter_runs_by_author |-> b, ignore_unsupported_language |-> FALSE] :
                        b \in BOOLEAN}
    /\ call_args \in CallArgs
    /\ submissions = BuildSubmissions(call_args)
    /\ returncode = None
    /\ fs = NoFiles
    /\ scratch = NoFiles
    /\ todo = {}
    /\ overview = None
    /\ result = None

(* -------------------------------- run -------------------------------- *)
Rejects == \/ (lang \notin supported_languages /\ ~settings.ignore_unsupported_language)
           \/ Cardinality(DOMAIN submissions) <= 1

\* lines 53-60: PyPlagException
RunRaises ==
    /\ pc = "start"
    /\ Rejects
    /\ pc' = "raised"
    /\ UNCHANGED <<lang, settings, call_args, submissions, returncode, fs, scratch, todo,
                   overview, result>>

\* lines 62-97: the detector runs; on status 0 it has written its archive
RunDetector ==
    /\ pc = "start"
    /\ ~Rejects
    /\ \E status \in {0, 1} :
         /\ returncode' = status
         /\ IF status = 0
            THEN \E withOverview \in BOOLEAN,
                    E \in {X \in SUBSET EntryUniverse : Cardinality(X) <= MaxEntries} :
                   \E sim \in [Comparisons(E) -> SimChoices],
                      index \in IndexChoices(E),
                      top \in TopChoices(E) :
                     fs' = FileWrite(fs, ReportPath(lang),
                                     JPlagArchive(withOverview, E, sim, index, top))
            ELSE fs' = fs
    /\ pc' = "detected"
    /\ UNCHANGED <<lang, settings, call_args, submissions, scratch, todo, overview, result>>

\* lines 97-109 when post-processing is not run
RunReturn ==
    /\ pc = "detected"
    /\ ~(returncode = 0 /\ settings.filter_runs_by_author)
    /\ result' = PyPlagReport(returncode, ReportPath(lang), None)
    /\ pc' = "returned"
    /\ UNCHANGED <<lang, settings, call_args, submissions, returncode, fs, scratch, todo,
                   overview>>

(* -------------------- _post_process_jplag_results -------------------- *)
\* lines 115-139: extract, load the overview, list the scratch directory
Extract ==
    /\ pc = "detected"
    /\ returncode = 0 /\ settings.filter_runs_by_author
    /\ OverviewName \in DOMAIN fs[ReportPath(lang)]
    /\ scratch' = fs[ReportPath(lang)]
    /\ overview' = JsonLoad(fs[ReportPath(lang)][OverviewName])
    /\ todo' = DOMAIN fs[ReportPath(lang)]
    /\ pc' = "loop"
    /\ UNCHANGED <<lang, settings, call_args, submissions, returncode, fs, result>>

\* an exception leaves _post_process_jplag_results and run; the scratch
\* directory is removed on the way out and the locals are gone
Raise ==
    /\ pc' = "raised"
    /\ scratch' = NoFiles
    /\ todo' = {}
    /\ overview' = None
    /\ UNCHANGED <<lang, settings, call_args, submissions, returncode, fs, result>>

\* line 128: overview.json is not in the archive
ExtractNoOverview ==
    /\ pc = "detected"
    /\ returncode = 0 /\ settings.filter_runs_by_author
    /\ OverviewName \notin DOMAIN fs[ReportPath(lang)]
    /\ Raise

\* lines 141-142
LoopIgnored ==
    /\ pc = "loop"
    /\ \E f \in todo :
         /\ EntryKind(f, submissions_dict) = "ignored"
         /\ todo' = SkipIgnored(todo, f)
    /\ UNCHANGED <<pc, lang, settings, call_args, submissions, returncode, fs, scratch,
                   overview, result>>

\* line 144: the stem does not split into two
LoopBadName ==
    /\ pc = "loop"
    /\ \E f \in todo : EntryKind(f, submissions_dict) = "badname"
    /\ Raise

\* lines 145-146: KeyError
LoopUnknown ==
    /\ pc = "loop"
    /\ \E f \in todo : EntryKind(f, submissions_dict) = "unknown"
    /\ Raise

\* line 148, authors differ
LoopKeep ==
    /\ pc = "loop"
    /\ \E f \in todo :
         /\ EntryKind(f, submissions_dict) = "keep"
         /\ todo' = todo \ {f}
    /\ UNCHANGED <<pc, lang, settings, call_args, submissions, returncode, fs, scratch,
                   overview, result>>

\* lines 148-197, authors equal
LoopCollision ==
    /\ pc = "loop"
    /\ \E f \in todo :
         /\ EntryKind(f, submissions_dict) = "collision"
         /\ LET ids == Split(f.stem)
                file_data == JsonLoad(scratch[f])
            IN  /\ scratch' = OverwriteAndDelete(scratch, f, ids[1], ids[2])
                /\ overview' = Sanitize(overview, file_data, ids[1], ids[2])
         /\ todo' = todo \ {f}
    /\ UNCHANGED <<pc, lang, settings, call_args, submissions, returncode, fs, result>>

\* lines 202-214: write the overview, zip the scratch directory, return
WriteMinimized ==
    /\ pc = "loop"
    /\ todo = {}
    /\ fs' = FileWrite(fs, ReportMinPath(ReportPath(lang)),
                       FileWrite(scratch, OverviewName, <<overview>>))
    /\ scratch' = NoFiles
    /\ pc' = "post_done"
    /\ UNCHANGED <<lang, settings, call_args, submissions, returncode, todo, overview, result>>

\* lines 101-109 after post-processing
RunReturnMin ==
    /\ pc = "post_done"
    /\ result' = PyPlagReport(returncode, ReportPath(lang), ReportMinPath(ReportPath(lang)))
    /\ pc' = "returned"
    /\ UNCHANGED <<lang, settings, call_args, submissions, returncode, fs, scratch, todo,
                   overview>>

Next ==
    \/ RunRaises
    \/ RunDetector
    \/ RunReturn
    \/ Extract
    \/ ExtractNoOverview
    \/ LoopIgnored
    \/ LoopBadName
    \/ LoopUnknown
    \/ LoopKeep
    \/ LoopCollision
    \/ WriteMinimized
    \/ RunReturnMin

Spec == Init /\ [][Next]_vars

(* ------------------------------ claims ------------------------------- *)
Report == ReportPath(lang)
MinPath == [stem |-> <<lang, ".min">>, suffix |-> ".jplag"]
\* the detector's archive and the minimized archive
Input == fs[Report]
Output == fs[MinPath]
InputOverview == JsonLoad(Input[OverviewName])
OutputOverview == JsonLoad(Output[OverviewName])
Author(id) == submissions_dict[id].author
\* _post_process_jplag_results has returned
Completed == pc = "post_done" /\ MinPath \in DOMAIN fs
\* the comparison entries of the input that are missing from the output
Removed == DOMAIN Input \ DOMAIN Output
RemovedPairs == {{Split(n.stem)[1], Split(n.stem)[2]} : n \in Removed}
KnownComparisons ==
    {n \in Comparisons(DOMAIN Input \ ignore_files) :
        Split(n.stem)[1] \in DOMAIN submissions_dict /\ Split(n.stem)[2] \in DOMAIN submissions_dict}
SameAttr(n) == Author(Split(n.stem)[1]) = Author(Split(n.stem)[2])
Sum(h) == SumTo(h, SIMILARITY_DISTRIBUTION_SIZE - 1)
OneTwo == Name(<<"one", "-", "two">>)
TwoThree == Name(<<"two", "-", "three">>)

\* C1: once post-processing has completed, the minimized archive holds no entry named
\* A-B or B-A for any two submissions A, B whose author attributes are equal
C1_CollisionRemoval ==
    Completed =>
        \A a \in DOMAIN submissions_dict, b \in DOMAIN submissions_dict :
            Author(a) = Author(b) =>
                \A n \in DOMAIN Output : Split(n.stem) \notin {<<a, b>>, <<b, a>>}

\* two colliding entries of the input, both gone
C1_Witness ==
    /\ Completed
    /\ {OneTwo, TwoThree} \subseteq DOMAIN Input
    /\ SameAttr(OneTwo) /\ SameAttr(TwoThree)
    /\ DOMAIN Output = {OverviewName}

\* C2 (as claimed): once post-processing has completed, every pair the index still
\* references has its comparison entry in the minimized archive
C2_IndexConsistent ==
    Completed =>
        LET index == OutputOverview.submission_ids_to_comparison_file_name
        IN  \A s \in DOMAIN index : \A o \in DOMAIN index[s] :
                \E n \in DOMAIN Output : Split(n.stem) \in {<<s, o>>, <<o, s>>}

\* C3 (as claimed): with submissions built positionally as (identifier, author,
\* language, files), a comparison of two different authors with one language is kept
\* and a comparison of one author with two languages is removed
C3_AuthorIsSecondArgument ==
    Completed =>
        \A n \in KnownComparisons :
            LET a == call_args[Split(n.stem)[1]]
                b == call_args[Split(n.stem)[2]]
            IN  /\ (a.author # b.author /\ a.language = b.language) => n \in DOMAIN Output
                /\ (a.author = b.author /\ a.language # b.language) => n \notin DOMAIN Output

\* C4, the archive: an entry whose submissions differ in their author attribute is in
\* the minimized archive with the content it has in the input
C4_Kept ==
    Completed =>
        \A n \in KnownComparisons :
            ~SameAttr(n) => (n \in DOMAIN Output /\ Output[n] = Input[n])

\* C4, the step: processing such an entry changes neither the overview (histograms,
\* index, top list) nor the scratch directory
C4_StepFrame ==
    \A f \in todo :
        (pc = "loop" /\ pc' = "loop" /\ todo' = todo \ {f} /\ f \in KnownComparisons
            /\ ~SameAttr(f))
        => (overview' = overview /\ scratch' = scratch)

\* C4: non-collision entries are untouched
C4_NonCollisionUntouched == [](C4_Kept) /\ [][C4_StepFrame]_vars

\* a kept entry beside a removed one
C4_Witness ==
    /\ Completed
    /\ \E n \in KnownComparisons : ~SameAttr(n) /\ n \in DOMAIN Output
    /\ \E n \in KnownComparisons : SameAttr(n) /\ n \notin DOMAIN Output

\* every comparison record of the input is counted in its MAX and AVG histograms
InputCounted ==
    LET records == Comparisons(DOMAIN Input \ ignore_files)
        bucket(n, m) == Bucket(JsonLoad(Input[n]).similarities[m])
    IN  \A m \in Metrics :
            /\ \A b \in 0..(SIMILARITY_DISTRIBUTION_SIZE - 1) :
                  InputOverview.distributions[m][b] >= 0
            /\ \A n \in records :
                  InputOverview.distributions[m][bucket(n, m)] >=
                      Cardinality({x \in records : bucket(x, m) = bucket(n, m)})

\* C5: for an input whose records are all counted, no bucket of MAX or AVG is ever
\* negative, and at completion each of the two sums has dropped by the number of
\* removed entries
C5_HistogramConservation ==
    /\ (pc = "loop" /\ InputCounted) =>
          \A m \in Metrics : \A b \in 0..(SIMILARITY_DISTRIBUTION_SIZE - 1) :
              overview.distributions[m][b] >= 0
    /\ (Completed /\ InputCounted) =>
          \A m \in Metrics :
              /\ Sum(OutputOverview.distributions[m])
                    = Sum(InputOverview.distributions[m]) - Cardinality(Removed)
              /\ \A b \in 0..(SIMILARITY_DISTRIBUTION_SIZE - 1) :
                    OutputOverview.distributions[m][b] >= 0

\* two removed records in one bucket
C5_Witness ==
    /\ Completed
    /\ Removed = {OneTwo, TwoThree}
    /\ JsonLoad(Input[OneTwo]).similarities = JsonLoad(Input[TwoThree]).similarities
    /\ InputOverview.distributions["MAX"][Bucket(JsonLoad(Input[OneTwo]).similarities.MAX)] = 2

Fatal ==
    \/ OverviewName \notin DOMAIN Input
    \/ \E n \in DOMAIN Input \ ignore_files :
          \/ Len(Split(n.stem)) # 2
          \/ \E i \in 1..2 : Split(n.stem)[i] \notin DOMAIN submissions_dict

PostProcessing == pc \in {"loop", "post_done"}

\* the archive at the report path is not written again
ReportOnlyRead == Report \in DOMAIN fs => (Report \in DOMAIN fs' /\ fs'[Report] = fs[Report])

\* C7, the states: on a fatal input post-processing does not run to its end, and
\* once it has raised the report is the only archive there is
C7_NoOutput ==
    /\ (PostProcessing /\ Fatal) => (todo # {} /\ pc # "post_done")
    /\ (pc = "raised" /\ Report \in DOMAIN fs) => DOMAIN fs = {Report}

\* C7: fail-closed; no step writes the report
C7_FailClosed == [][ReportOnlyRead]_vars /\ [](C7_NoOutput)

\* raised inside the loop, on an entry
C7_Witness ==
    /\ pc = "raised"
    /\ Report \in DOMAIN fs
    /\ OverviewName \in DOMAIN Input
    /\ Fatal

\* C8, the states: post-processing only after status 0 with the filter on; on another
\* status no minimized path and no minimized archive; after post-processing the
\* report path as it was and the minimized path <stem>.min<suffix> beside it
C8_Result ==
    /\ PostProcessing => (returncode = 0 /\ settings.filter_runs_by_author)
    /\ (pc = "returned" /\ returncode # 0) =>
          (result.report_min_path = None /\ MinPath \notin DOMAIN fs)
    /\ (pc = "returned" /\ result.report_min_path # None) =>
          /\ result.status = 0
          /\ result.report_path = Report
          /\ result.report_min_path = MinPath
          /\ result.report_min_path # result.report_path
          /\ DOMAIN fs = {Report, MinPath}

ExpectedBucket(value) ==
    IF value * SIMILARITY_DISTRIBUTION_SIZE >= (SIMILARITY_DISTRIBUTION_SIZE - 1) * Scale
    THEN SIMILARITY_DISTRIBUTION_SIZE - 1
    ELSE CHOOSE k \in 0..(SIMILARITY_DISTRIBUTION_SIZE - 1) :
            k * Scale <= value * SIMILARITY_DISTRIBUTION_SIZE
            /\ value * SIMILARITY_DISTRIBUTION_SIZE < (k + 1) * Scale

\* the step that removes entry f
Removes(f) ==
    /\ pc = "loop" /\ pc' = "loop"
    /\ todo' = todo \ {f}
    /\ f \in DOMAIN scratch /\ f \notin DOMAIN scratch'

\* C9, the step: removing a record takes one from the bucket of its MAX value and one
\* from the bucket of its AVG value, as the input archive has them, and leaves every
\* other bucket and every other metric as it was
C9_Step ==
    \A f \in todo :
        Removes(f) =>
            /\ \A m \in Metrics :
                  LET expected == ExpectedBucket(JsonLoad(Input[f]).similarities[m])
                  IN  \A b \in 0..(SIMILARITY_DISTRIBUTION_SIZE - 1) :
                          overview'.distributions[m][b] =
                              IF b = expected THEN overview.distributions[m][b] - 1
                              ELSE overview.distributions[m][b]
            /\ \A m \in AllMetrics \ Metrics :
                  overview'.distributions[m] = overview.distributions[m]

\* C9: bucket correctness; 0.755 is bucket 75 and 1.0 is bucket 99
C9_BucketCorrect ==
    /\ [][C9_Step]_vars
    /\ [](Bucket(755) = 75 /\ Bucket(Scale) = SIMILARITY_DISTRIBUTION_SIZE - 1)

\* a record with MAX 1.0 and AVG 0.755 has been removed: buckets 99 and 75
C9_Witness ==
    /\ pc = "loop"
    /\ DOMAIN Input \ DOMAIN scratch = {OneTwo}
    /\ JsonLoad(Input[OneTwo]).similarities = [MAX |-> Scale, AVG |-> 755]
    /\ overview.distributions.MAX[99] = InputOverview.distributions.MAX[99] - 1
    /\ overview.distributions.AVG[75] = InputOverview.distributions.AVG[75] - 1

\* the loop run over the files in one fixed order
RECURSIVE InFixedOrder(_, _, _)
InFixedOrder(rest, dir, ov) ==
    IF rest = {} THEN [ok |-> TRUE, scratch |-> dir, overview |-> ov]
    ELSE LET f == CHOOSE x \in rest : TRUE
             kind == EntryKind(f, submissions_dict)
             ids == Split(f.stem)
         IN  CASE kind = "ignored" -> InFixedOrder(SkipIgnored(rest, f), dir, ov)
               [] kind = "keep" -> InFixedOrder(rest \ {f}, dir, ov)
               [] kind = "collision" ->
                     InFixedOrder(rest \ {f}, OverwriteAndDelete(dir, f, ids[1], ids[2]),
                                  Sanitize(ov, JsonLoad(dir[f]), ids[1], ids[2]))
               [] OTHER -> [ok |-> FALSE, scratch |-> NoFiles, overview |-> None]

\* C10: whatever order the directory is listed in, the outcome is the one of the
\* fixed order: the same surviving entries and overview, or failure without output
C10_OrderIndependent ==
    /\ Completed =>
          LET r == InFixedOrder(DOMAIN Input, Input, InputOverview)
          IN  r.ok /\ Output = FileWrite(r.scratch, OverviewName, <<r.overview>>)
    /\ (pc = "raised" /\ Report \in DOMAIN fs /\ OverviewName \in DOMAIN Input) =>
          /\ ~InFixedOrder(DOMAIN Input, Input, InputOverview).ok
          /\ MinPath \notin DOMAIN fs

\* two collisions and a top list naming both: three files, six orders
C10_Witness ==
    /\ Completed
    /\ Removed = {OneTwo, TwoThree}
    /\ Len(InputOverview.top_comparisons) = Cardinality(Removed)
    /\ OutputOverview.top_comparisons = <<>>

=============================================================================
